---- MODULE Spec2Model ----
(***************************************************************************)
(* Model of src/app.py: a Streamlit chat script.  Streamlit executes the   *)
(* script top to bottom on every user event; st.session_state survives     *)
(* between executions, script locals do not.  One execution is a walk of   *)
(* pc from "setup" to "idle"; an exception that no handler catches ends    *)
(* the execution where it is raised and keeps the session state as it is.  *)
(***************************************************************************)
EXTENDS Integers, Sequences, FiniteSets, TLC

\* ------------------------------------------------------------------ bounds
MaxLog == 4         \* a new input is admitted only while Len(messages) < MaxLog
HashSpace == 2      \* number of distinct fingerprints hash() can return
MaxModels == 2      \* entries of the fallback model list that are modelled

\* ---------------------------------------------------------------- values
NoneStr == "None"              \* Python None where a string is expected
NoneText == <<"None">>         \* Python None where a text is expected
NoAudio == <<0>>               \* the recorder returned None (bytes are 1 or 2)
NoAudioId == -1                \* Python None in last_audio_id
\* no chat request has been made in this turn
NoRequest == [model |-> NoneStr, messages |-> <<>>]

\* Texts are sequences of characters; " " stands for any whitespace.
\* What the user may type and what the transcription may return:
Texts == { <<>>, <<" ">>, <<"a">>, <<" ", "b", " ">> }

\* What the chat service may return as the reply content:
ReplyTexts == { <<>>, <<"r">>, <<"r", "s">> }

\* What the recorder may deliver (bytes); <<>> is an empty recording:
Blobs == { <<>>, <<1>>, <<2>>, <<1, 2>> }

\* str.strip(): drop leading and trailing whitespace
RECURSIVE LStrip(_)
LStrip(s) == IF s # <<>> /\ Head(s) = " " THEN LStrip(Tail(s)) ELSE s

RECURSIVE RStrip(_)
RStrip(s) ==
    IF s # <<>> /\ s[Len(s)] = " " THEN RStrip(SubSeq(s, 1, Len(s) - 1)) ELSE s

Strip(s) == RStrip(LStrip(s))

\* Python truthiness of an optional string
Truthy(s) == s # NoneText /\ s # <<>>

\* line 246: audio and audio.get("bytes")
HasBytes(audio) == audio # NoAudio /\ audio # <<>>

\* hash(audio["bytes"]): a deterministic function into a finite range
RECURSIVE ByteSum(_)
ByteSum(b) == IF b = <<>> THEN 0 ELSE Head(b) + ByteSum(Tail(b))

Hash(b) == ByteSum(b) % HashSpace

\* ------------------------------------------------------------ model lists
FallbackList == <<"gpt-4o-mini", "gpt-4o", "gpt-4.1", "gpt-4.1-mini", "gpt-3.5-turbo">>

\* the fallback list, cut to its first MaxModels entries
DefaultModels == SubSeq(FallbackList, 1, IF MaxModels < 5 THEN MaxModels ELSE 5)

\* what client.models.list() may answer (ids in server order)
ServerLists ==
    { <<"whisper-1", "gpt-4o", "gpt-4o-audio-preview">>,
      <<"gpt-4o", "text-embedding-3-small", "gpt-4o-mini">>,
      <<"whisper-1">> }

\* the name filter of the model selector, evaluated on the ids above
IsChatCapable(id) ==
    id \in {"gpt-4o-mini", "gpt-4o", "gpt-4.1", "gpt-4.1-mini", "gpt-3.5-turbo"}

FilterModels(ids) == SelectSeq(ids, IsChatCapable)

Range(s) == {s[i] : i \in 1..Len(s)}

\* --------------------------------------------------------------- messages
Msg(r, c) == [role |-> r, content |-> c]

SystemPrompt(m) == <<"You are ChatGPT ... mention your model", m>>

SystemMessage(m) == Msg("system", SystemPrompt(m))

HasSystem(log) == \E i \in 1..Len(log) : log[i].role = "system"

\* ------------------------------------------------------------------ state
VARIABLES
    messages,          \* st.session_state.messages
    last_audio_id,     \* st.session_state.last_audio_id
    is_replying,       \* st.session_state.is_replying
    selected_model,    \* st.session_state.selected_model
    pc,                \* position of the running script ("idle": none running)
    available_models,  \* script global
    new_model,         \* script global: the selectbox value
    confirm,           \* the confirmation checkbox's value (False when not shown)
    ret,               \* where stream_reply returns to
    user_text,         \* script global: the accepted st.chat_input value
    transcript,        \* script global: the transcription's text
    text,              \* script global: the stripped transcript
    reply_text,        \* stream_reply local
    full_reply,        \* stream_reply local
    log_before,        \* history: messages when the current input was admitted
    done,              \* history: the current turn's final render was made
    request,           \* history: the model and message list of the chat request
    renders,           \* history: the updates the reply block has received
    uncaught,          \* history: the exception that ended this execution
    chat_run,          \* history: chat calls since the last new user input
    clean,             \* history: every input accepted since the log was last
                       \*   reset has completed, or is completing, successfully
    turns,             \* history: while clean, the completed turns since the
                       \*   log was last reset (input kind, user text, reply)
    last_fp,           \* history: fingerprint of the recorder's last delivery
    tx_run,            \* history: transcription calls since last_fp changed
    au_run,            \* history: audio user messages since last_fp changed
    redelivered        \* history: last_fp was delivered again after its first time

session == <<messages, last_audio_id, is_replying, selected_model>>
sidebar == <<available_models, new_model, confirm>>
turn == <<ret, user_text, transcript, text, reply_text, full_reply, log_before,
          done, request, renders, uncaught>>
turn_history == <<clean, turns>>
audio_history == <<last_fp, tx_run, au_run, redelivered>>
vars == <<messages, last_audio_id, is_replying, selected_model, pc,
          available_models, new_model, confirm, ret, user_text, transcript, text,
          reply_text, full_reply, log_before, done, request, renders, uncaught,
          chat_run, clean, turns, last_fp, tx_run, au_run, redelivered>>

Init ==
    /\ messages = <<>>
    /\ last_audio_id = NoAudioId
    /\ is_replying = FALSE
    /\ selected_model = NoneStr
    /\ pc = "idle"
    /\ available_models = <<>>
    /\ new_model = NoneStr
    /\ confirm = FALSE
    /\ ret = "none"
    /\ user_text = NoneText
    /\ transcript = NoneText
    /\ text = NoneText
    /\ reply_text = NoneText
    /\ full_reply = <<>>
    /\ log_before = <<>>
    /\ done = FALSE
    /\ request = NoRequest
    /\ renders = <<>>
    /\ uncaught = "none"
    /\ chat_run = 0
    /\ clean = TRUE
    /\ turns = <<>>
    /\ last_fp = NoAudioId
    /\ tx_run = 0
    /\ au_run = 0
    /\ redelivered = FALSE

\* ------------------------------------------------- session-state operators
\* line 94: an active model missing from the list falls back to the first entry
ValidModel(sel, avail) == IF sel \in Range(avail) THEN sel ELSE avail[1]

\* faulty variant: the switch is made without asking for the confirmation
SwitchUnconfirmed(nm, sel, c) == nm # sel

\* lines 103-104: the switch happens only when a different model is confirmed
SwitchConfirmed(nm, sel, c) == nm # sel /\ c

\* faulty variant: the log survives the switch
KeepLog(log) == log

\* line 106: messages = []
ResetLog(log) == <<>>

\* faulty variant: the system message is inserted on every execution
AlwaysNeedsSystem(log) == TRUE

\* line 115: no message with role "system"
NeedsSystemMessage(log) == ~HasSystem(log)

\* lines 116-122: messages.insert(0, system message)
InsertSystem(log, m) == <<SystemMessage(m)>> \o log

\* faulty variant: the user message is inserted at the front
PrependUser(log, c) == <<[role |-> "user", content |-> c]>> \o log

\* lines 224, 262: messages.append(user message)
AppendUser(log, c) == Append(log, Msg("user", c))

\* line 223: if user_text  (the raw value, before strip)
TextAccepted(raw) == Truthy(raw)

\* faulty variant: the transcript is used unstripped
RawAudioText(t) == t

\* line 260: text = transcript.text.strip()
AudioText(t) == Strip(t)

\* faulty variant: every delivery is taken as a new recording
AlwaysNewAudio(last, id) == TRUE

\* line 248: last_audio_id != audio_id
IsNewAudio(last, id) == last # id

\* line 158: messages.append(empty assistant message)
AppendPlaceholder(log) == Append(log, Msg("assistant", <<>>))

\* faulty variant: the reply is not stored, the placeholder stays empty
LeaveEmpty(log, r) == log

\* line 167: messages[-1]["content"] = reply_text
CommitReply(log, r) == [log EXCEPT ![Len(log)].content = r]

\* faulty variant: the handler leaves the placeholder in the log
KeepPlaceholder(log) == log

\* line 211: messages.pop()
DiscardPlaceholder(log) == SubSeq(log, 1, Len(log) - 1)

\* faulty variant: the request carries the whole log, placeholder included
OutboundWithPlaceholder(log) == log

\* line 164: messages[:-1]
Outbound(log) == SubSeq(log, 1, Len(log) - 1)

\* faulty variant: the inputs are offered while a reply is in progress
InputsAlwaysEnabled(busy) == TRUE

\* lines 219 and 234: the inputs are replaced by a notice while is_replying
InputsEnabled(busy) == ~busy

\* lines 174-184: a partial render, the text so far followed by the cursor
PartialUpdate(full) == [content |-> full, cursor |-> TRUE]

\* faulty variant: the final render keeps the cursor
FinalWithCursor(full) == [content |-> full, cursor |-> TRUE]

\* lines 189-199: the final render, the text without the cursor
FinalUpdate(full) == [content |-> full, cursor |-> FALSE]

\* the user content of the turn in progress: line 224 or line 262
UserContent == IF ret = "audio" THEN Strip(user_text) ELSE text

\* the entry of the history variable turns for the turn in progress
ThisTurn ==
    [via |-> IF ret = "audio" THEN "text" ELSE "audio",
     user |-> UserContent, reply |-> reply_text]

\* a turn ended without a stored reply: the history is no longer clean
Spoiled ==
    /\ clean' = FALSE
    /\ turns' = <<>>

InStreamReply == {"sr_begin", "sr_call", "sr_stream", "sr_except", "sr_end"}

\* ---------------------------------------------------------------- actions
\* Script variables that are not read again are forgotten where they die.
ForgetSidebar ==
    /\ available_models' = <<>>
    /\ new_model' = NoneStr
    /\ confirm' = FALSE

ForgetTurn ==
    /\ ret' = "none"
    /\ user_text' = NoneText
    /\ transcript' = NoneText
    /\ text' = NoneText
    /\ reply_text' = NoneText
    /\ full_reply' = <<>>
    /\ log_before' = <<>>
    /\ done' = FALSE
    /\ request' = NoRequest
    /\ renders' = <<>>
    /\ uncaught' = "none"

\* A user event (or the first page load) starts an execution of the script.
Rerun ==
    /\ pc = "idle"
    /\ pc' = "setup"
    /\ UNCHANGED <<session, sidebar, turn, chat_run, turn_history, audio_history>>

\* lines 13-67: API key check and validation (st.stop() on failure), then the
\* session-state defaults, which only the first execution assigns (as in Init).
Setup ==
    /\ pc = "setup"
    /\ \E key_ok \in BOOLEAN :
          pc' = IF key_ok THEN "models" ELSE "end"
    /\ UNCHANGED <<session, sidebar, turn, chat_run, turn_history, audio_history>>

\* lines 70-94: fetch and filter the model list, fall back to the defaults,
\* and make selected_model a member of the list.
ModelSelector ==
    /\ pc = "models"
    /\ \E fetch_ok \in BOOLEAN, ids \in ServerLists :
          LET filtered == IF fetch_ok THEN FilterModels(ids) ELSE <<>>
              avail == IF filtered = <<>> THEN DefaultModels ELSE filtered
          IN  /\ available_models' = avail
              /\ selected_model' = ValidModel(selected_model, avail)
    /\ pc' = "select"
    /\ UNCHANGED <<messages, last_audio_id, is_replying, new_model, confirm, turn,
                   chat_run, turn_history, audio_history>>

\* lines 97-109: selectbox, and the confirmation checkbox when it is shown
ModelSelection ==
    /\ pc = "select"
    /\ \E nm \in Range(available_models), c \in BOOLEAN :
          /\ (nm = selected_model => c = FALSE)
          /\ new_model' = nm
          /\ confirm' = c
          /\ IF SwitchConfirmed(nm, selected_model, c)
             THEN /\ selected_model' = nm
                  /\ messages' = ResetLog(messages)
                  /\ clean' = TRUE
                  /\ turns' = <<>>
             ELSE UNCHANGED <<selected_model, messages, turn_history>>
    /\ pc' = "sysmsg"
    /\ UNCHANGED <<last_audio_id, is_replying, available_models, turn, chat_run,
                   audio_history>>

\* lines 112-122 and 216: ensure the system message, render the conversation
EnsureSystemMessage ==
    /\ pc = "sysmsg"
    /\ messages' = IF NeedsSystemMessage(messages)
                   THEN InsertSystem(messages, selected_model)
                   ELSE messages
    /\ pc' = "text"
    /\ ForgetSidebar
    /\ UNCHANGED <<last_audio_id, is_replying, selected_model, turn, chat_run,
                   turn_history, audio_history>>

\* lines 219-230: the text input block
TextInput ==
    /\ pc = "text"
    /\ IF ~InputsEnabled(is_replying)
       THEN /\ pc' = "audio"
            /\ UNCHANGED <<messages, ret, user_text, log_before, chat_run>>
       ELSE \E raw \in Texts \cup {NoneText} :
              /\ (TextAccepted(raw) => Len(messages) < MaxLog)
              /\ IF TextAccepted(raw)
                 THEN /\ user_text' = raw
                      /\ messages' = AppendUser(messages, Strip(raw))
                      /\ log_before' = messages
                      /\ ret' = "audio"
                      /\ chat_run' = 0
                      /\ pc' = "sr_begin"
                 ELSE /\ pc' = "audio"
                      /\ UNCHANGED <<messages, ret, user_text, log_before,
                                     chat_run>>
    /\ UNCHANGED <<last_audio_id, is_replying, selected_model, sidebar, transcript,
                   text, reply_text, full_reply, done, request, renders, uncaught,
                   turn_history, audio_history>>

\* lines 153-158: stream_reply up to the try block.  The placeholder creation
\* of line 154 is outside the try: an exception raised there ends the script.
StreamReplyBegin ==
    /\ pc = "sr_begin"
    /\ is_replying' = TRUE
    /\ full_reply' = <<>>
    /\ \E raised \in BOOLEAN :
          IF raised
          THEN /\ pc' = "end"
               /\ uncaught' = "placeholder"
               /\ Spoiled
               /\ UNCHANGED messages
          ELSE /\ pc' = "sr_call"
               /\ messages' = AppendPlaceholder(messages)
               /\ UNCHANGED <<uncaught, turn_history>>
    /\ UNCHANGED <<last_audio_id, selected_model, sidebar, ret, user_text,
                   transcript, text, reply_text, log_before, done, request,
                   renders, chat_run, audio_history>>

\* lines 162-167: the chat call.  It raises (caught at line 204), or returns a
\* reply whose content is a string or None; None is stored and then makes the
\* loop of line 170 raise TypeError, which line 204 catches as well.
ChatCall ==
    /\ pc = "sr_call"
    /\ request' = [model |-> selected_model, messages |-> Outbound(messages)]
    /\ chat_run' = chat_run + 1
    /\ \/ /\ pc' = "sr_except"
          /\ Spoiled
          /\ UNCHANGED <<messages, reply_text>>
       \/ /\ reply_text' = NoneText
          /\ messages' = CommitReply(messages, NoneText)
          /\ Spoiled
          /\ pc' = "sr_except"
       \/ \E r \in ReplyTexts :
             /\ reply_text' = r
             /\ messages' = CommitReply(messages, r)
             /\ pc' = "sr_stream"
             /\ UNCHANGED turn_history
    /\ UNCHANGED <<last_audio_id, is_replying, selected_model, sidebar, ret,
                   user_text, transcript, text, full_reply, log_before, done,
                   renders, uncaught, audio_history>>

\* An st.* call inside the try block returns, raises an Exception (caught at
\* line 204) or raises a script-control exception (a BaseException, which
\* "except Exception" lets through).
RenderOutcomes == {"ok", "error", "control"}

AfterRender(out, next) ==
    CASE out = "ok" -> next
      [] out = "error" -> "sr_except"
      [] out = "control" -> "end"

\* lines 170-186: one iteration of the character loop
StreamChar ==
    /\ pc = "sr_stream"
    /\ Len(full_reply) < Len(reply_text)
    /\ \E out \in RenderOutcomes :
          /\ full_reply' = Append(full_reply, reply_text[Len(full_reply) + 1])
          /\ pc' = AfterRender(out, "sr_stream")
          /\ renders' = IF out = "ok"
                        THEN Append(renders, PartialUpdate(full_reply'))
                        ELSE renders
          /\ uncaught' = IF out = "control" THEN "control" ELSE uncaught
          /\ IF out = "ok" THEN UNCHANGED turn_history ELSE Spoiled
    /\ UNCHANGED <<session, sidebar, ret, user_text, transcript, text, reply_text,
                   log_before, done, request, chat_run, audio_history>>

\* lines 189-202: the final render
FinalRender ==
    /\ pc = "sr_stream"
    /\ Len(full_reply) = Len(reply_text)
    /\ \E out \in RenderOutcomes :
          /\ pc' = AfterRender(out, "sr_end")
          /\ done' = (out = "ok")
          /\ renders' = IF out = "ok"
                        THEN Append(renders, FinalUpdate(full_reply))
                        ELSE renders
          /\ uncaught' = IF out = "control" THEN "control" ELSE uncaught
          /\ IF out = "ok"
             THEN /\ turns' = IF clean THEN Append(turns, ThisTurn) ELSE turns
                  /\ UNCHANGED clean
             ELSE Spoiled
    /\ UNCHANGED <<session, sidebar, ret, user_text, transcript, text, reply_text,
                   full_reply, log_before, request, chat_run, audio_history>>

\* lines 204-211: the failure handler; st.error is not guarded itself
FailureHandler ==
    /\ pc = "sr_except"
    /\ \E raised \in BOOLEAN :
          IF raised
          THEN /\ pc' = "end"
               /\ uncaught' = "handler"
               /\ UNCHANGED messages
          ELSE /\ pc' = "sr_end"
               /\ messages' = DiscardPlaceholder(messages)
               /\ UNCHANGED uncaught
    /\ UNCHANGED <<last_audio_id, is_replying, selected_model, sidebar, ret,
                   user_text, transcript, text, reply_text, full_reply, log_before,
                   done, request, renders, chat_run, turn_history, audio_history>>

\* line 213, and the return to the caller
StreamReplyEnd ==
    /\ pc = "sr_end"
    /\ is_replying' = FALSE
    /\ pc' = ret
    /\ ForgetTurn
    /\ UNCHANGED <<messages, last_audio_id, selected_model, sidebar, chat_run,
                   turn_history, audio_history>>

\* lines 234-249: the recorder and the fingerprint test
AudioInput ==
    /\ pc = "audio"
    /\ IF ~InputsEnabled(is_replying)
       THEN /\ pc' = "end"
            /\ UNCHANGED <<last_audio_id, chat_run, audio_history>>
       ELSE \E audio \in Blobs \cup {NoAudio} :
              LET fresh == HasBytes(audio) /\ IsNewAudio(last_audio_id, Hash(audio))
              IN  /\ (fresh => Len(messages) < MaxLog)
                  /\ last_audio_id' = IF fresh THEN Hash(audio) ELSE last_audio_id
                  /\ pc' = IF fresh THEN "transcribe" ELSE "end"
                  /\ IF HasBytes(audio) /\ Hash(audio) # last_fp
                     THEN /\ last_fp' = Hash(audio)
                          /\ tx_run' = 0
                          /\ au_run' = 0
                          /\ chat_run' = 0
                          /\ redelivered' = FALSE
                     ELSE /\ redelivered' = (redelivered \/ HasBytes(audio))
                          /\ UNCHANGED <<last_fp, tx_run, au_run, chat_run>>
    /\ UNCHANGED <<messages, is_replying, selected_model, sidebar, turn,
                   turn_history>>

\* lines 251-268: transcription (not inside any try) and the audio turn
Transcribe ==
    /\ pc = "transcribe"
    /\ tx_run' = tx_run + 1
    /\ \/ /\ pc' = "end"
          /\ uncaught' = "transcription"
          /\ UNCHANGED <<messages, ret, transcript, text, log_before, au_run>>
       \/ \E t \in Texts :
             /\ transcript' = t
             /\ UNCHANGED uncaught
             /\ text' = AudioText(t)
             /\ IF Truthy(AudioText(t))
                THEN /\ messages' = AppendUser(messages, AudioText(t))
                     /\ log_before' = messages
                     /\ au_run' = au_run + 1
                     /\ ret' = "end"
                     /\ pc' = "sr_begin"
                ELSE /\ pc' = "end"
                     /\ UNCHANGED <<messages, ret, log_before, au_run>>
    /\ UNCHANGED <<last_audio_id, is_replying, selected_model, sidebar, user_text,
                   reply_text, full_reply, done, request, renders, chat_run,
                   turn_history, last_fp, redelivered>>

\* The execution is over (its last line, st.stop(), or an uncaught exception):
\* the script's variables are gone, the session state stays.
EndRun ==
    /\ pc = "end"
    /\ pc' = "idle"
    /\ ForgetSidebar
    /\ ForgetTurn
    /\ UNCHANGED <<session, chat_run, turn_history, audio_history>>

Next ==
    \/ Rerun
    \/ Setup
    \/ ModelSelector
    \/ ModelSelection
    \/ EnsureSystemMessage
    \/ TextInput
    \/ StreamReplyBegin
    \/ ChatCall
    \/ StreamChar
    \/ FinalRender
    \/ FailureHandler
    \/ StreamReplyEnd
    \/ AudioInput
    \/ Transcribe
    \/ EndRun

Spec == Init /\ [][Next]_vars

\* Every step of the script but the user's event that starts an execution.
\* Streamlit runs an execution to its end, and the chat and transcription
\* calls return (a reply or an error).
ScriptStep ==
    \/ Setup
    \/ ModelSelector
    \/ ModelSelection
    \/ EnsureSystemMessage
    \/ TextInput
    \/ StreamReplyBegin
    \/ ChatCall
    \/ StreamChar
    \/ FinalRender
    \/ FailureHandler
    \/ StreamReplyEnd
    \/ AudioInput
    \/ Transcribe
    \/ EndRun

\* An execution that has started goes on to its end.
FairSpec == Spec /\ WF_vars(ScriptStep)

\* ------------------------------------------------------------------ claims
\* C1 (as stated): is_replying is false when an input is admitted, false
\* again right after stream_reply returns, and true only between the start of
\* stream_reply and its return.
C1_BusyInvariant ==
    [][ /\ (pc \in {"text", "transcribe"} /\ pc' = "sr_begin" => ~is_replying)
        /\ (pc = "sr_end" => ~is_replying')
        /\ (is_replying' => pc' \in InStreamReply) ]_vars

\* C2 (as stated): whenever control leaves stream_reply, by return or by an
\* exception, is_replying is false.
C2_ReleasedOnEveryExit ==
    [][(pc \in InStreamReply /\ pc' \notin InStreamReply) => ~is_replying']_vars

RECURSIVE Interleave(_)
Interleave(ts) ==
    IF ts = <<>> THEN <<>>
    ELSE <<Msg("user", Head(ts).user), Msg("assistant", Head(ts).reply)>>
         \o Interleave(Tail(ts))

\* C4: after a sequence of successful turns (since the log was last reset) the
\* log is one system message followed by user_1, assistant_1, user_2, ... in
\* the order the inputs were accepted, assistant_i holding turn i's reply.
C4_HistoryOrdering ==
    (clean /\ turns # <<>> /\ pc \notin InStreamReply) =>
        /\ Len(messages) = 1 + 2 * Len(turns)
        /\ messages[1].role = "system"
        /\ Tail(messages) = Interleave(turns)

\* a text turn and then an audio turn have completed, with different replies
C4_Witness ==
    /\ pc = "idle"
    /\ clean
    /\ Len(turns) = 2
    /\ turns[1].via = "text"
    /\ turns[2].via = "audio"
    /\ turns[1].reply # turns[2].reply

\* C5 (as stated), for deliveries whose transcription call returned: exactly
\* one transcription call was made and exactly one user message was appended
\* for the delivered fingerprint.
C5_ExactlyOneUserMessage ==
    transcript # NoneText => (tx_run = 1 /\ au_run = 1)

\* C5 (amended): over a succession of deliveries of one fingerprint, exactly
\* one transcription call is made and at most one user message is appended
\* (exactly one when the transcript is not blank); a delivery whose
\* fingerprint equals last_audio_id changes nothing.
C5_AudioIdempotence ==
    /\ []((last_fp # NoAudioId /\ pc # "transcribe") => tx_run = 1)
    /\ [](au_run <= 1)
    /\ []((transcript # NoneText /\ Strip(transcript) # <<>>) => au_run = 1)
    /\ [][(pc = "audio" /\ last_fp' = last_audio_id) =>
             (pc' = "end" /\ UNCHANGED session)]_vars

\* a recording that was turned into a user message has been delivered again
C5_Witness ==
    /\ pc = "idle"
    /\ redelivered
    /\ tx_run = 1
    /\ au_run = 1

\* C6: choosing a different model and confirming makes it the active model and
\* leaves a log that holds only a fresh system message naming it; declining,
\* or choosing the active model, leaves the active model and the log as they
\* were.
C6_ModelSwitch ==
    [][ /\ (pc = "select" =>
              IF new_model' # selected_model /\ confirm'
              THEN selected_model' = new_model'
              ELSE UNCHANGED <<selected_model, messages>>)
        /\ (pc = "sysmsg" /\ confirm =>
              /\ selected_model' = new_model
              /\ messages' = <<SystemMessage(new_model)>>
              /\ Len(messages') = 1) ]_vars

\* a switch was declined with a conversation in the log
C6_Witness ==
    /\ pc = "sysmsg"
    /\ ~confirm
    /\ new_model # selected_model
    /\ Len(messages) >= 3

\* C7 (as stated): a confirmed switch resets the log and the last-audio
\* fingerprint to their initial values.
C7_ResetsLogAndFingerprint ==
    [][(pc = "select" /\ new_model' # selected_model /\ confirm') =>
          (messages' = <<>> /\ last_audio_id' = NoAudioId)]_vars

\* C7 (amended): a confirmed switch resets the log to the empty log and leaves
\* the last-audio fingerprint as it was.
C7_ResetsLogKeepsFingerprint ==
    [][(pc = "select" /\ new_model' # selected_model /\ confirm') =>
          (messages' = <<>> /\ last_audio_id' = last_audio_id)]_vars

\* a switch was confirmed after a recording had been accepted
C7_Witness ==
    /\ pc = "sysmsg"
    /\ confirm
    /\ messages = <<>>
    /\ last_audio_id # NoAudioId

\* C8 (as stated): a text submission that is empty after trimming appends no
\* message and starts no turn.
C8_EmptyTextIsNoTurn ==
    [][(pc = "text" /\ pc' = "sr_begin") =>
          (Strip(user_text') # <<>> /\ messages' # messages)]_vars

\* C9: a transcript that is empty after trimming appends no message, starts
\* no turn (so no chat call) and leaves is_replying false.
C9_BlankTranscriptIsNoTurn ==
    [][(pc = "transcribe" /\ transcript' # NoneText /\ Strip(transcript') = <<>>) =>
          (messages' = messages /\ pc' = "end" /\ ~is_replying')]_vars

\* a whitespace-only transcript was returned and the execution ended
C9_Witness ==
    /\ pc = "end"
    /\ transcript # NoneText
    /\ transcript # <<>>
    /\ Strip(transcript) = <<>>
    /\ ~is_replying

\* C10: the log holds at most one system message, and only at index 0.
C10_SystemMessageFirst ==
    /\ \A i \in 1..Len(messages) : messages[i].role = "system" => i = 1
    /\ Cardinality({i \in 1..Len(messages) : messages[i].role = "system"}) <= 1

\* a failed turn and a completed turn are in the log behind the system message
C10_Witness ==
    /\ pc = "idle"
    /\ Len(messages) >= 4
    /\ messages[1].role = "system"
    /\ messages[2].role = "user"
    /\ messages[3].role = "user"

\* C11: whenever is_replying is false no placeholder is pending: the script is
\* outside the part of stream_reply that holds one, and at the step that
\* clears is_replying the slot of the empty assistant message appended at line
\* 158 is either gone from the log or holds the reply the chat call returned.
C11_NoDanglingPlaceholder ==
    /\ [](~is_replying => pc \notin {"sr_call", "sr_stream", "sr_except", "sr_end"})
    /\ [][(is_replying /\ ~is_replying') =>
            LET slot == Len(log_before) + 2
            IN  \/ Len(messages') < slot
                \/ /\ Len(messages') = slot
                   /\ reply_text # NoneText
                   /\ messages'[slot] = Msg("assistant", reply_text)]_vars

\* stream_reply is about to clear is_replying after a failure that followed a
\* non-empty reply: the reply had been stored and the message was removed
C11_Witness ==
    /\ pc = "sr_end"
    /\ ~done
    /\ reply_text # NoneText
    /\ reply_text # <<>>
    /\ Len(messages) = Len(log_before) + 1

\* C12: every failure of an external call made during a turn, the chat call
\* (line 162) as well as the transcription call (line 256), passes control to
\* the failure handler of the turn, and no exception leaves the script.
C12_ExternalFailuresCaught ==
    [][(\/ pc = "sr_call" /\ pc' # "sr_stream"
        \/ pc = "transcribe" /\ transcript' = NoneText) =>
          (pc' = "sr_except" /\ uncaught' = "none")]_vars

\* C13: when the transcription call fails for a newly accepted recording, the
\* log is unchanged, the execution ends without a chat call and is_replying
\* is false afterwards.
C13_TranscriptionFailureAborts ==
    /\ [][(pc = "transcribe" /\ uncaught' = "transcription") =>
            /\ messages' = messages
            /\ pc' = "end"
            /\ chat_run' = chat_run
            /\ ~is_replying']_vars
    /\ [](uncaught = "transcription" => (~is_replying /\ request = NoRequest))

\* the transcription of a recording failed in a session whose log already
\* holds a turn; the fingerprint of the recording has been stored
C13_Witness ==
    /\ pc = "end"
    /\ uncaught = "transcription"
    /\ Len(messages) >= 3
    /\ last_audio_id = last_fp
    /\ ~is_replying

\* C14: the chat request of a turn carries the active model and, as its
\* message list, the log as it was when the input was admitted followed by the
\* new user message, in that order and without the empty placeholder.
C14_RequestCarriesLog ==
    request # NoRequest =>
        /\ request.model = selected_model
        /\ request.messages = Append(log_before, Msg("user", UserContent))
        /\ request.messages[Len(request.messages)].role = "user"
        /\ Len(request.messages) = Len(messages) - 1 \/ pc \in {"sr_end", "end"}

\* the request of a second turn was sent: it carries the system message, the
\* first turn and the new user message
C14_Witness ==
    /\ pc = "sr_stream"
    /\ request # NoRequest
    /\ Len(request.messages) >= 4
    /\ request.messages[3].role = "assistant"

\* C15: no automatic retry.  Between one new user input (a submitted text, or
\* a recording whose fingerprint differs from the recorder's previous
\* delivery) and the next, over any number of reruns and re-deliveries of the
\* same recording, at most one transcription call and at most one chat call
\* are made.
C15_NoAutomaticRetry ==
    /\ tx_run <= 1
    /\ chat_run <= 1
    /\ ~(redelivered /\ pc = "transcribe")

\* a recording was transcribed, its turn failed at the chat call, and a later
\* execution received the same recording again without calling anything
C15_Witness ==
    /\ pc = "end"
    /\ redelivered
    /\ tx_run = 1
    /\ au_run = 1
    /\ chat_run = 1
    /\ messages[Len(messages)].role = "user"
    /\ ~is_replying

\* C16: single flight.  While is_replying is true no input is admitted: only a
\* step taken with is_replying false appends a user message, issues a
\* transcription call or enters stream_reply, and inside stream_reply the
\* chat call of the turn is made at most once.
C16_SingleFlight ==
    [][/\ (/\ Len(messages') = Len(messages) + 1
           /\ messages'[Len(messages')].role = "user") => ~is_replying
       /\ (pc' \in {"transcribe", "sr_begin"} /\ pc' # pc) => ~is_replying
       /\ (tx_run' = tx_run + 1) => ~is_replying
       /\ (pc = "sr_call") => (is_replying /\ request = NoRequest)]_vars

\* is_replying is true when the script reaches the input blocks: the inputs
\* are replaced by the notice although the log has room for a message
C16_Witness ==
    /\ pc = "audio"
    /\ is_replying
    /\ Len(messages) < MaxLog
    /\ request = NoRequest

\* C17: every admitted turn resolves.  Once the chat call of a turn has been
\* made (and has returned, as FairSpec assumes), is_replying becomes false
\* again, so that the next execution offers the inputs.
C17_TurnResolves ==
    (is_replying /\ request # NoRequest) ~> ~is_replying

\* C18: when the chat call is made, the system message at index 0 of the log
\* names the model that the request carries (selected_model).
C18_SystemMessageNamesModel ==
    pc = "sr_call" =>
        /\ messages[1].role = "system"
        /\ messages[1].content = SystemPrompt(selected_model)

\* the updates a reply block receives for reply r: each non-empty prefix with
\* the cursor, in increasing length, then r without the cursor
ExpectedRenders(r) ==
    [i \in 1..Len(r) |-> [content |-> SubSeq(r, 1, i), cursor |-> TRUE]]
        \o <<[content |-> r, cursor |-> FALSE]>>

\* C19: after a successful chat call the reply block has received, at any
\* moment, an initial part of: the non-empty prefixes of the reply with the
\* cursor in strictly increasing length, then one final update with the whole
\* reply and no cursor.  When the turn completes it has received all of it,
\* nothing after the final update, and the final content is the content
\* stored in the assistant message.
C19_StreamedPrefixesThenFinal ==
    /\ (reply_text # NoneText) =>
          /\ Len(renders) <= Len(reply_text) + 1
          /\ renders = SubSeq(ExpectedRenders(reply_text), 1, Len(renders))
    /\ (reply_text = NoneText) => renders = <<>>
    /\ done =>
          /\ renders = ExpectedRenders(reply_text)
          /\ messages[Len(messages)] =
                 Msg("assistant", renders[Len(renders)].content)

\* a two-character reply has been streamed and rendered completely
C19_Witness ==
    /\ pc = "sr_end"
    /\ done
    /\ Len(reply_text) = 2
    /\ Len(renders) = 3

\* C20: while the script is outside stream_reply (no turn is in progress),
\* every assistant message of the log comes right after a user message.
C20_AssistantFollowsUser ==
    pc \notin InStreamReply =>
        \A i \in 1..Len(messages) :
            messages[i].role = "assistant" =>
                (i > 1 /\ messages[i - 1].role = "user")

\* between two executions the log ends with the user message of a failed
\* turn followed by a completed turn
C20_Witness ==
    /\ pc = "idle"
    /\ ~clean
    /\ ~is_replying
    /\ Len(messages) >= 4
    /\ messages[Len(messages)].role = "assistant"
    /\ messages[Len(messages) - 1].role = "user"
    /\ messages[Len(messages) - 2].role = "user"

====
